---------------------------- MODULE Spec2Model ----------------------------
(***************************************************************************)
(* Model of the GEO-INQUIRE audio processor                                *)
(*   src/geo_inquire_processor/processor.py  (pipeline, StationXML)        *)
(*   src/geo_inquire_processor/gui.py        (form, validation, start)     *)
(*                                                                         *)
(* Specifications of the module:                                           *)
(*   Spec      the form (Application) and the batch loop                   *)
(*             (AudioProcessor.process_files), one action per step;        *)
(*   SpecXml   the lxml post-processing of generate_stationxml_obspy       *)
(*             applied to bounded base trees;                              *)
(*   SpecName  extract_datetime_from_filename on bounded file names;       *)
(*   SpecTz    start_processing on bounded time zone entries;              *)
(*   SpecPath  the output paths computed from one input path;              *)
(*   SpecMseed the start time flac_to_miniseed gives the trace;            *)
(*   SpecResample    the chunk lengths of downsample_wav;                  *)
(*   SpecBatchPaths  the output paths of a batch of two input paths;       *)
(*   SpecSignal      the samples downsample_wav computes, in fixed point.  *)
(*                                                                         *)
(* Times are integer seconds.  A WAV file is a record                      *)
(*   [name, rate, nsamples]; nsamples is a multiple of rate, so that       *)
(*   len(data) / rate is exact.                                            *)
(***************************************************************************)
EXTENDS Integers, Sequences, FiniteSets, TLC

(***************************************************************************)
(* Program constants                                                       *)
(***************************************************************************)
\* config.py:9
FINAL_SAMPLING_RATE == 300
\* processor.py:152  if not (8000 <= rate <= 400000)
MinSampleRate == 8000
MaxSampleRate == 400000
\* processor.py:206, 373  if duration > 86400
MaxDurationSeconds == 86400
\* timedelta(hours=1) in seconds
SecondsPerHour == 3600

(***************************************************************************)
(* Bounds of the model                                                     *)
(***************************************************************************)
\* longest batch handed to process_files
MaxFiles == 2
\* reading of the clock when the batch starts
ClockStart == 100000

None == "None"

(***************************************************************************)
(* File names.  A file name is the sequence of its characters.             *)
(* A timestamp is the number of seconds since 2000-01-01T00:00:00; the     *)
(* names of the model carry years from 2000 on.  A tier of                 *)
(* extract_datetime_from_filename yields a timestamp, NoStamp when its     *)
(* pattern does not match, ParseFailed when the parse raised inside the    *)
(* tier's try block.                                                       *)
(***************************************************************************)
NoStamp == 0 - 1
ParseFailed == 0 - 2

Digits == {"0", "1", "2", "3", "4", "5", "6", "7", "8", "9"}

DigitValue(c) ==
    CASE c = "0" -> 0 [] c = "1" -> 1 [] c = "2" -> 2 [] c = "3" -> 3
      [] c = "4" -> 4 [] c = "5" -> 5 [] c = "6" -> 6 [] c = "7" -> 7
      [] c = "8" -> 8 [] c = "9" -> 9

\* characters the regular expression class \w does not match
NonWordChars == {".", "-", " ", "+"}

\* \d{n} at position i
IsDigits(s, i, n) == \A k \in i..(i + n - 1) : s[k] \in Digits

\* int() of the two / four digits at position i
Num2(s, i) == 10 * DigitValue(s[i]) + DigitValue(s[i + 1])
Num4(s, i) == 100 * Num2(s, i) + Num2(s, i + 2)

SetMin(S) == CHOOSE x \in S : \A y \in S : x <= y

\* processor.py:39  re.sub(r'\.\w+$', '', filename)
StripExtension(s) ==
    LET dots == {i \in 1..(Len(s) - 1) :
                    /\ s[i] = "."
                    /\ \A k \in (i + 1)..Len(s) : s[k] \notin NonWordChars}
    IN  IF dots = {} THEN s ELSE SubSeq(s, 1, SetMin(dots) - 1)

\* processor.py:42  pattern_full matches at position i
FullAt(s, i) ==
    /\ i + 18 <= Len(s)
    /\ IsDigits(s, i, 4) /\ s[i + 4] = "-"
    /\ IsDigits(s, i + 5, 2) /\ s[i + 7] = "-"
    /\ IsDigits(s, i + 8, 2)
    /\ s[i + 10] \in {" ", "_"}
    /\ IsDigits(s, i + 11, 2) /\ s[i + 13] = "-"
    /\ IsDigits(s, i + 14, 2) /\ s[i + 16] = "-"
    /\ IsDigits(s, i + 17, 2)

\* processor.py:46-48  the fields strptime reads from the match at i
FullFields(s, i) ==
    [year |-> Num4(s, i), month |-> Num2(s, i + 5), day |-> Num2(s, i + 8),
     hour |-> Num2(s, i + 11), minute |-> Num2(s, i + 14), second |-> Num2(s, i + 17)]

\* processor.py:55  pattern_compact matches at position i
CompactAt(s, i) ==
    /\ i + 14 <= Len(s)
    /\ IsDigits(s, i, 8)
    /\ s[i + 8] \in {" ", "_"}
    /\ IsDigits(s, i + 9, 6)

\* processor.py:59-61
CompactFields(s, i) ==
    [year |-> Num4(s, i), month |-> Num2(s, i + 4), day |-> Num2(s, i + 6),
     hour |-> Num2(s, i + 9), minute |-> Num2(s, i + 11), second |-> Num2(s, i + 13)]

LeapYear(y) == (y % 4 = 0 /\ y % 100 # 0) \/ y % 400 = 0

DaysInMonth(y, m) ==
    IF m = 2 THEN (IF LeapYear(y) THEN 29 ELSE 28)
    ELSE IF m \in {4, 6, 9, 11} THEN 30 ELSE 31

\* datetime.strptime(dt_str, fmt) returns (processor.py:49, 62)
ValidDateTime(f) ==
    /\ f.year >= 1
    /\ f.month \in 1..12
    /\ f.day >= 1 /\ f.day <= DaysInMonth(f.year, f.month)
    /\ f.hour <= 23 /\ f.minute <= 59 /\ f.second <= 59

LeapDaysBefore(y) == (y - 1) \div 4 - (y - 1) \div 100 + (y - 1) \div 400

DaysBeforeMonth(y, m) ==
    <<0, 31, 59, 90, 120, 151, 181, 212, 243, 273, 304, 334>>[m]
    + (IF m > 2 /\ LeapYear(y) THEN 1 ELSE 0)

\* the datetime of valid fields, in seconds since 2000-01-01T00:00:00
ToSeconds(f) ==
    LET days == 365 * (f.year - 2000) + LeapDaysBefore(f.year) - LeapDaysBefore(2000)
                + DaysBeforeMonth(f.year, f.month) + f.day - 1
    IN  86400 * days + 3600 * f.hour + 60 * f.minute + f.second

\* position of the match re.search returns, 0 when there is none
FirstFull(s) ==
    LET at == {i \in 1..Len(s) : FullAt(s, i)}
    IN  IF at = {} THEN 0 ELSE SetMin(at)

FirstCompact(s) ==
    LET at == {i \in 1..Len(s) : CompactAt(s, i)}
    IN  IF at = {} THEN 0 ELSE SetMin(at)

\* re.match in place of re.search: the pattern is tried at the start only
FullTierAnchored(s) ==
    IF ~FullAt(s, 1) THEN NoStamp
    ELSE IF ValidDateTime(FullFields(s, 1)) THEN ToSeconds(FullFields(s, 1))
    ELSE ParseFailed

\* processor.py:42-52  tier 1 on the name without extension
FullTier(s) ==
    LET i == FirstFull(s)
    IN  IF i = 0 THEN NoStamp
        ELSE IF ValidDateTime(FullFields(s, i)) THEN ToSeconds(FullFields(s, i))
        ELSE ParseFailed

\* processor.py:55-65  tier 2
CompactTier(s) ==
    LET i == FirstCompact(s)
    IN  IF i = 0 THEN NoStamp
        ELSE IF ValidDateTime(CompactFields(s, i)) THEN ToSeconds(CompactFields(s, i))
        ELSE ParseFailed

HasDigit(s) == \E i \in 1..Len(s) : s[i] \in Digits

\* what dateutil's parser.parse(name, fuzzy=True) may return for a name
\* (processor.py:69-70): a name without digits made of words dateutil does
\* not know raises; for the other names both outcomes are taken.
FuzzyStamp == 20000
FuzzyOutcomes(s) == IF HasDigit(s) THEN {ParseFailed, FuzzyStamp} ELSE {ParseFailed}

\* a file name with what the three tiers find in it (processor.py:39-70)
Name(filename, fuzzy) ==
    LET name == StripExtension(filename)
    IN  [text |-> filename, full |-> FullTier(name),
         compact |-> CompactTier(name), fuzzy |-> fuzzy]

NameFull    == Name(<<"2", "0", "2", "4", "-", "0", "5", "-", "1", "7", "_", "0", "9", "-", "2", "5", "-", "3", "3", ".", "w", "a", "v">>,
                    ParseFailed)
NameCompact == Name(<<"2", "0", "1", "8", "0", "7", "2", "6", "_", "1", "4", "1", "2", "4", "1", ".", "w", "a", "v">>,
                    ParseFailed)
NamePlain   == Name(<<"r", "e", "c", "o", "r", "d", "i", "n", "g", ".", "w", "a", "v">>,
                    ParseFailed)

\* a tier whose match did not parse taken for a tier that produced a value
TierFoundLoose(r) == r # NoStamp

\* processor.py:44-52, 57-65, 68-71  a tier returns only when its pattern
\* matched and the parse did not raise
TierFound(r) == r \notin {NoStamp, ParseFailed}

\* the except clause of tier 1 removed: the strptime error leaves the function
extract_datetime_unguarded(name, utcnow) ==
    IF name.full = ParseFailed THEN ParseFailed
    ELSE IF TierFound(name.full) THEN name.full
    ELSE IF TierFound(name.compact) THEN name.compact
    ELSE IF TierFound(name.fuzzy) THEN name.fuzzy
    ELSE utcnow

\* processor.py:27-72
extract_datetime_from_filename(name, utcnow) ==
    IF TierFound(name.full) THEN name.full
    ELSE IF TierFound(name.compact) THEN name.compact
    ELSE IF TierFound(name.fuzzy) THEN name.fuzzy
    ELSE utcnow

\* processor.py:75-85   returns <<start, end>>
generate_start_end_time(name, duration_seconds, utcnow) ==
    LET start_time == extract_datetime_from_filename(name, utcnow)
    IN  <<start_time, start_time + duration_seconds>>

(***************************************************************************)
(* WAV files on disk                                                       *)
(***************************************************************************)
WavGood     == [name |-> NameFull,  rate |-> 8000, nsamples |-> 80000]
WavUnnamed  == [name |-> NamePlain, rate |-> 8000, nsamples |-> 80000]
WavLowRate  == [name |-> NameCompact, rate |-> 4000, nsamples |-> 40000]
WavTooLong  == [name |-> NameFull,  rate |-> 8000, nsamples |-> 8000 * 86401]

WavFiles == {WavGood, WavUnnamed, WavLowRate, WavTooLong}

Duration(f) == f.nsamples \div f.rate

\* processor.py:152
RateRealistic(rate) == MinSampleRate <= rate /\ rate <= MaxSampleRate

\* the limit taken one second too high
DurationTooLongLax(duration) == duration > MaxDurationSeconds + 1

\* processor.py:206, 373
DurationTooLong(duration) == duration > MaxDurationSeconds

SeqsUpTo(S, n) == UNION {[1..k -> S] : k \in 0..n}

Batches == SeqsUpTo(WavFiles, MaxFiles)


(***************************************************************************)
(* The form (gui.py).  Fields is a sample of the 25 entries of             *)
(* eida_fields: two text fields and one field that                         *)
(* generate_stationxml_obspy passes to float().  The values of these       *)
(* entries carry no surrounding blanks, so entry.get().strip() is the      *)
(* value itself; the time zone entry is text with blanks and case.         *)
(***************************************************************************)
\* gui.py:316-343  eida_fields
Fields == {"sender", "source", "latitude"}

\* processor.py:260-265, 270-271, 282-284  fields read through float()
FloatFields == {"latitude"}

\* what the operator can type in a field
FieldValues(f) == IF f \in FloatFields THEN {"", "abc", "28.1"} ELSE {"", "PLOCAN"}

EntryStates == {e \in [Fields -> {"", "abc", "28.1", "PLOCAN"}] :
                   \A f \in Fields : e[f] \in FieldValues(f)}

\* a metadata text file: the keys it holds, with their values
MetadataFiles == {m \in [Fields -> {None, "", "abc", "28.1", "PLOCAN"}] :
                     \A f \in Fields : m[f] = None \/ m[f] \in FieldValues(f)}

\* float(str): the strings float() accepts
FloatParses(v) == v \in {"28.1"}

\* characters of the time zone entry
TzUtc0   == <<"U", "T", "C", "+", "0">>
TzUtcM5  == <<"U", "T", "C", "-", "0", "5">>
TzUtc25  == <<"U", "T", "C", "+", "2", "5">>
TzGmt3   == <<"G", "M", "T", "+", "3">>
TzEntries == {TzUtc0, TzUtcM5, TzUtc25, TzGmt3}

Blanks == {" "}

\* str.strip(): leading and trailing blanks removed
Strip(s) ==
    LET inked == {i \in 1..Len(s) : s[i] \notin Blanks}
    IN  IF inked = {} THEN <<>>
        ELSE SubSeq(s, SetMin(inked), CHOOSE j \in inked : \A k \in inked : k <= j)

\* str.upper() on one character
UpperChar(c) ==
    CASE c = "u" -> "U" [] c = "t" -> "T" [] c = "c" -> "C"
      [] c = "g" -> "G" [] c = "m" -> "M" [] OTHER -> c

\* gui.py:508  tz_str = self.tz_offset_entry.get().strip().upper()
TzStr(entry) == LET t == Strip(entry) IN [i \in 1..Len(t) |-> UpperChar(t[i])]

\* gui.py:509-510  re.match(r'^UTC([+-])(\d{1,2})$', tz_str)
TzMatches(s) ==
    /\ Len(s) \in {5, 6}
    /\ s[1] = "U" /\ s[2] = "T" /\ s[3] = "C"
    /\ s[4] \in {"+", "-"}
    /\ \A i \in 5..Len(s) : s[i] \in Digits

\* gui.py:513-514  int(digits), signed
TzValue(s) ==
    LET n == IF Len(s) = 5 THEN DigitValue(s[5])
             ELSE 10 * DigitValue(s[5]) + DigitValue(s[6])
    IN  IF s[4] = "+" THEN n ELSE 0 - n

Abs(n) == IF n < 0 THEN 0 - n ELSE n

\* the range test with > in place of >=
TzAcceptedUpTo24(s) == TzMatches(s) /\ ~(Abs(TzValue(s)) > 24)

\* gui.py:511-516  the offset is accepted
TzAccepted(s) == TzMatches(s) /\ ~(Abs(TzValue(s)) >= 24)

\* gui.py:451-456
get_stationxml_data(e) == [f \in Fields |-> e[f]]

\* gui.py:460-463  missing_fields
missing_fields(e) == {f \in Fields : e[f] = ""}

\* processor.py:198-211  extract_times_from_wav raises (rate or duration)
ExtractTimesRaises(f) == ~RateRealistic(f.rate) \/ DurationTooLong(Duration(f))


(***************************************************************************)
(* lxml: root.xpath() does not take the ElementTree "{uri}tag" notation    *)
(* (only find/findall/iterfind do).  With a default namespace ns_pref is   *)
(* non-empty and root.xpath(f".//{ns_pref}EndDate") raises XPathEvalError. *)
(***************************************************************************)
\* processor.py:311, 329
XPathRaises(has_default_ns) == has_default_ns

(***************************************************************************)
(* The StationXML tree.  An element is [tag, text, kids]; a text is a      *)
(* sequence of tokens, <<>> the empty string.  The tag is the local name:  *)
(* with a default namespace every element of the document is in it, and    *)
(* find/findall with ns_pref match exactly the elements of that name.      *)
(***************************************************************************)
Element(tag, text, kids) == [tag |-> tag, text |-> text, kids |-> kids]

\* etree.Element(name): no text, no children, no parent
NewElement(tag) == Element(tag, <<>>, <<>>)

\* lxml: bool(element) is len(element) > 0
ElementTruth(el) == Len(el.kids) > 0

\* element.find(tag): position of the first child of that tag, 0 for None
Find(kids, tag) ==
    IF \E i \in 1..Len(kids) : kids[i].tag = tag
    THEN CHOOSE i \in 1..Len(kids) :
             /\ kids[i].tag = tag
             /\ \A j \in 1..(i - 1) : kids[j].tag # tag
    ELSE 0

\* parent.insert(idx, el) with idx = pos - 1
InsertAt(kids, pos, el) ==
    [i \in 1..(Len(kids) + 1) |->
        IF i < pos THEN kids[i] ELSE IF i = pos THEN el ELSE kids[i - 1]]

\* parent.remove(kids[pos])
RemoveAt(kids, pos) ==
    [i \in 1..(Len(kids) - 1) |-> IF i < pos THEN kids[i] ELSE kids[i + 1]]

SetText(kids, pos, text) == [kids EXCEPT ![pos].text = text]

\* processor.py:250-254
NetworkIdentifier(net_id) ==
    IF Len(net_id) > 0 /\ net_id[1] \in {"http://", "https://"}
    THEN net_id
    ELSE <<"urn:network_identifier:">> \o net_id

\* processor.py:314-320  Source
EnsureSource(root, source) ==
    LET sender_el == Find(root, "Sender")
        found     == Find(root, "Source")
    IN  IF source = <<>> THEN root
        ELSE IF found # 0 /\ ElementTruth(root[found])
        THEN SetText(root, found, source)
        ELSE IF sender_el # 0
        THEN InsertAt(root, sender_el, Element("Source", source, <<>>))
        ELSE root

\* processor.py:314, 323-326  Sender (sender_el was looked up before Source)
EnsureSender(root_before, root, sender) ==
    IF Find(root_before, "Sender") = 0
    THEN InsertAt(root, 1, Element("Sender", sender, <<>>))
    ELSE SetText(root, Find(root, "Sender"), sender)

RECURSIVE RemoveEndDates(_)
\* processor.py:329-330  every EndDate below the root is removed
RemoveEndDates(kids) ==
    IF kids = <<>> THEN <<>>
    ELSE IF Head(kids).tag = "EndDate" THEN RemoveEndDates(Tail(kids))
    ELSE <<[Head(kids) EXCEPT !.kids = RemoveEndDates(Head(kids).kids)]>>
             \o RemoveEndDates(Tail(kids))

\* processor.py:334-340  Identifier first
IdentifierFirst(kids, network_identifier) ==
    LET ident == Find(kids, "Identifier")
    IN  IF ident = 0
        THEN InsertAt(kids, 1, Element("Identifier", network_identifier, <<>>))
        ELSE InsertAt(RemoveAt(kids, ident), 1,
                      [kids[ident] EXCEPT !.text = network_identifier])

\* processor.py:341-344  Station last
StationLast(kids) ==
    LET st == Find(kids, "Station")
    IN  IF st = 0 THEN kids
        ELSE RemoveAt(kids, st) \o <<kids[st]>>

\* processor.py:333-344  for net in root.findall("Network")
FixNetworks(root, network_identifier) ==
    [i \in 1..Len(root) |->
        IF root[i].tag = "Network"
        THEN [root[i] EXCEPT
                 !.kids = StationLast(IdentifierFirst(root[i].kids, network_identifier))]
        ELSE root[i]]

\* processor.py:313-344  the rewrite of the parsed tree
ComplianceRewrite(root, g) ==
    LET r1 == EnsureSource(root, g.source)
        r2 == EnsureSender(root, r1, g.sender)
        r3 == RemoveEndDates(r2)
    IN  FixNetworks(r3, NetworkIdentifier(g.net_id))

(***************************************************************************)
(* State                                                                   *)
(***************************************************************************)
VARIABLES
    \* Application (gui.py)
    entries,               \* stationxml_entries: field -> text
    stationxml_validated,  \* gui.py:73
    file_paths,            \* gui.py:72
    tz_offset_entry,       \* gui.py:141
    plot_var,              \* gui.py:162
    status,                \* status_label, "closed" once the window is destroyed
    \* AudioProcessor.process_files (processor.py:411-459)
    pc,                    \* "gui", "batch", "done"
    args,                  \* arguments of process_files
    index,                 \* loop index (0-based)
    step,                  \* position inside the loop body
    successful_files,
    summary,               \* the two closing prints, None until emitted
    local,                 \* locals of the file in progress
    now,                   \* the clock (datetime.utcnow)
    temp_files,            \* indices whose temporary WAV exists on disk
    artifacts,             \* <<index, kind>> written, kind in flac/mseed/xml
    flac_tags,             \* time_coverage_* tags saved in the FLAC, per index
    xml_dates,             \* start/end dates given to the inventory, per index
    errors,                \* what the except clause printed, in order
    attempted,             \* indices the loop entered, in order
    plots,                 \* indices for which plot_signals was called
    completed,             \* <<index, call>>: process_wav_file ("flac"),
                           \* flac_to_miniseed ("mseed") and
                           \* generate_stationxml_obspy ("xml") that returned
    \* generate_stationxml_obspy post-processing (processor.py:303-347)
    xml_phase,             \* "idle", "built", "base", "written", "raised"
    ns_default,            \* None in root.nsmap
    gen,                   \* source, sender, network_identifier
    base_root,             \* children of the root as inventory.write left them
    xml_file,              \* children of the root in the file on disk
    \* one call of a function of processor.py taken on its own
    fn_in,                 \* the arguments
    fn_out,                \* the value returned
    fn_phase               \* "idle", "called", "returned"

gvars == <<entries, stationxml_validated, file_paths, tz_offset_entry, plot_var, status>>
bvars == <<pc, args, index, step, successful_files, summary, local, now,
           temp_files, artifacts, flac_tags, xml_dates, errors, attempted, plots, completed>>
xvars == <<xml_phase, ns_default, gen, base_root, xml_file>>
fvars == <<fn_in, fn_out, fn_phase>>
vars  == <<gvars, bvars, xvars, fvars>>

NoArgs == [file_paths |-> <<>>, stationxml_data |-> [f \in Fields |-> ""],
           tz_offset |-> 0, plot_preference |-> FALSE]

NoGen == [source |-> <<>>, sender |-> <<>>, net_id |-> <<>>]

XmlIdle ==
    /\ xml_phase = "idle" /\ ns_default = FALSE
    /\ gen = NoGen /\ base_root = <<>> /\ xml_file = <<>>

\* Application.__init__ (gui.py:69-73, 141-142, 162); no batch started
FormInit ==
    /\ entries = [f \in Fields |-> ""]
    /\ stationxml_validated = FALSE
    /\ file_paths = <<>>
    /\ tz_offset_entry = TzUtc0
    /\ plot_var = FALSE
    /\ status = "ready"
    /\ pc = "gui"
    /\ args = NoArgs
    /\ index = 0
    /\ step = "idle"
    /\ successful_files = 0
    /\ summary = None
    /\ local = None
    /\ now = ClockStart
    /\ temp_files = {}
    /\ artifacts = {}
    /\ flac_tags = {}
    /\ xml_dates = {}
    /\ errors = <<>>
    /\ attempted = <<>>
    /\ plots = <<>>
    /\ completed = {}

FnIdle == fn_in = <<>> /\ fn_out = <<>> /\ fn_phase = "idle"

Init == FormInit /\ XmlIdle /\ FnIdle

(***************************************************************************)
(* Operations of the form                                                  *)
(***************************************************************************)
\* the operator types in, or clears, one entry (ttk.Entry, gui.py:352-354)
EditField ==
    /\ pc = "gui"
    /\ \E f \in Fields : \E v \in FieldValues(f) :
          /\ entries[f] # v
          /\ entries' = [entries EXCEPT ![f] = v]
    /\ UNCHANGED <<stationxml_validated, file_paths, tz_offset_entry, plot_var, status>>
    /\ UNCHANGED <<bvars, xvars, fvars>>

\* gui.py:141  the operator edits the time zone entry
EditTzOffset ==
    /\ pc = "gui"
    /\ \E s \in TzEntries : s # tz_offset_entry /\ tz_offset_entry' = s
    /\ UNCHANGED <<entries, stationxml_validated, file_paths, plot_var, status>>
    /\ UNCHANGED <<bvars, xvars, fvars>>

\* gui.py:162-167  the plot check button
TogglePlot ==
    /\ pc = "gui"
    /\ plot_var' = ~plot_var
    /\ UNCHANGED <<entries, stationxml_validated, file_paths, tz_offset_entry, status>>
    /\ UNCHANGED <<bvars, xvars, fvars>>

\* gui.py:367-385  select_files / select_folder
SelectFiles ==
    /\ pc = "gui"
    /\ \E b \in Batches : b # file_paths /\ file_paths' = b
    /\ UNCHANGED <<entries, stationxml_validated, tz_offset_entry, plot_var, status>>
    /\ UNCHANGED <<bvars, xvars, fvars>>

\* gui.py:423-428
populate_stationxml_fields(e, metadata) ==
    [f \in Fields |-> IF metadata[f] # None THEN metadata[f] ELSE e[f]]

\* gui.py:474-484  outcome of validate_stationxml_metadata on entries e
ValidationPasses(e) == missing_fields(e) = {}

\* gui.py:458-494
validate_stationxml_metadata ==
    /\ pc = "gui"
    /\ stationxml_validated' = ValidationPasses(entries)
    /\ status' = IF ValidationPasses(entries) THEN "validated" ELSE "validation failed"
    /\ UNCHANGED <<entries, file_paths, tz_offset_entry, plot_var>>
    /\ UNCHANGED <<bvars, xvars, fvars>>

\* gui.py:401-414
select_stationxml_file ==
    /\ pc = "gui"
    /\ \E m \in MetadataFiles :
          LET e == populate_stationxml_fields(entries, m)
          IN  /\ entries' = e
              /\ stationxml_validated' = ValidationPasses(e)
              /\ status' = IF ValidationPasses(e) THEN "validated" ELSE "validation failed"
    /\ UNCHANGED <<file_paths, tz_offset_entry, plot_var>>
    /\ UNCHANGED <<bvars, xvars, fvars>>

\* gui.py:498-516, 523  start_processing shows an error and starts nothing
StartRejected ==
    \/ file_paths = <<>>
    \/ ~stationxml_validated
    \/ ~TzAccepted(TzStr(tz_offset_entry))
    \/ ExtractTimesRaises(file_paths[1])

\* gui.py:496-542
start_processing ==
    /\ pc = "gui"
    /\ IF StartRejected
       THEN /\ status' = IF file_paths = <<>> \/ ~stationxml_validated
                         THEN status ELSE "error"
            /\ UNCHANGED <<bvars>>
       ELSE /\ status' = "closed"
            /\ pc' = "batch"
            /\ args' = [file_paths |-> file_paths,
                        stationxml_data |-> get_stationxml_data(entries),
                        tz_offset |-> TzValue(TzStr(tz_offset_entry)),
                        plot_preference |-> plot_var]
            /\ step' = "loop"
            /\ UNCHANGED <<index, successful_files, summary, local, now, temp_files,
                           artifacts, flac_tags, xml_dates, errors, attempted, plots, completed>>
    /\ UNCHANGED <<entries, stationxml_validated, file_paths, tz_offset_entry, plot_var>>
    /\ UNCHANGED <<xvars, fvars>>


(***************************************************************************)
(* AudioProcessor.process_files, one action per step of the loop body.     *)
(* Every step takes time: the clock advances.  A step that calls an        *)
(* external writer (soundfile, ffmpeg, mutagen, obspy) either completes    *)
(* or raises.                                                              *)
(***************************************************************************)
total_files == Len(args.file_paths)

CurFile == args.file_paths[index + 1]

\* an except clause that ends the loop
RaiseAborts(reason) ==
    /\ errors' = Append(errors, [index |-> index, reason |-> reason])
    /\ index' = total_files
    /\ step' = "loop"
    /\ local' = None

\* processor.py:453-454  the except clause: print the error, next iteration
Raise(reason) ==
    /\ errors' = Append(errors, [index |-> index, reason |-> reason])
    /\ index' = index + 1
    /\ step' = "loop"
    /\ local' = None

\* the loop body goes on to its next statement
Goto(next_step, new_local) ==
    /\ step' = next_step
    /\ local' = new_local
    /\ UNCHANGED <<errors, index>>

\* the offset added instead of subtracted
AdjustTzAdded(t, tz_offset) == t + tz_offset * SecondsPerHour

\* processor.py:379-380, 244-245   t - timedelta(hours=tz_offset)
AdjustTz(t, tz_offset) == t - tz_offset * SecondsPerHour

\* processor.py:377-383  extract_times_from_wav, then the offset
FileTimes(f, tz_offset, utcnow) ==
    LET se == generate_start_end_time(f.name, Duration(f), utcnow)
    IN  [start |-> AdjustTz(se[1], tz_offset), end |-> AdjustTz(se[2], tz_offset)]

\* processor.py:421-423, 371-384  loop header, get_wav_info, duration, times
BeginFile ==
    /\ pc = "batch" /\ step = "loop" /\ index < total_files
    /\ attempted' = Append(attempted, index)
    /\ now' = now + 1
    /\ IF ~RateRealistic(CurFile.rate) THEN Raise("rate")
       ELSE IF DurationTooLong(Duration(CurFile)) THEN Raise("duration")
       ELSE Goto("condition",
                 [rate |-> CurFile.rate,
                  times |-> FileTimes(CurFile, args.tz_offset, now)])
    /\ UNCHANGED <<pc, args, successful_files, summary, temp_files, artifacts,
                   flac_tags, xml_dates, plots, completed>>
    /\ UNCHANGED <<gvars, xvars, fvars>>

\* plot_first without the test on the index
PlotFirstAnyIndex == args.plot_preference

\* processor.py:429  plot_first
PlotFirst == index = 0 /\ args.plot_preference

\* processor.py:386-393  downsample_wav, plot_signals, convert_data_format
Condition ==
    /\ pc = "batch" /\ step = "condition"
    /\ now' = now + 1
    /\ IF local.rate > FINAL_SAMPLING_RATE /\ PlotFirst
       THEN /\ plots' = Append(plots, index)
            /\ \E shown \in BOOLEAN :
                  IF shown THEN Goto("temp", local) ELSE Raise("plot")
       ELSE /\ plots' = plots
            /\ Goto("temp", local)
    /\ UNCHANGED <<pc, args, successful_files, summary, temp_files, artifacts,
                   flac_tags, xml_dates, attempted, completed>>
    /\ UNCHANGED <<gvars, xvars, fvars>>

\* processor.py:395-399  tempfile.mktemp, sf.write
WriteTemp ==
    /\ pc = "batch" /\ step = "temp"
    /\ now' = now + 1
    /\ \E written \in BOOLEAN :
          IF written
          THEN /\ temp_files' = temp_files \cup {index}
               /\ Goto("flac", local)
          ELSE /\ temp_files' = temp_files
               /\ Raise("temp")
    /\ UNCHANGED <<pc, args, successful_files, summary, artifacts,
                   flac_tags, xml_dates, attempted, plots, completed>>
    /\ UNCHANGED <<gvars, xvars, fvars>>

\* processor.py:401-402  convert_wav_to_flac
ConvertFlac ==
    /\ pc = "batch" /\ step = "flac"
    /\ now' = now + 1
    /\ \E converted \in BOOLEAN :
          IF converted
          THEN /\ artifacts' = artifacts \cup {<<index, "flac">>}
               /\ Goto("tag", local)
          ELSE /\ artifacts' = artifacts
               /\ Raise("flac")
    /\ UNCHANGED <<pc, args, successful_files, summary, temp_files,
                   flac_tags, xml_dates, attempted, plots, completed>>
    /\ UNCHANGED <<gvars, xvars, fvars>>

\* processor.py:405-407  the temporary file after process_wav_file's last lines
CleanUp(files, i) == files \ {i}

\* processor.py:403-409  add_metadata_to_flac, clean up, return
TagFlac ==
    /\ pc = "batch" /\ step = "tag"
    /\ now' = now + 1
    /\ \E saved \in BOOLEAN :
          IF saved
          THEN /\ flac_tags' = flac_tags \cup
                      {[index |-> index, start |-> local.times.start,
                        end |-> local.times.end]}
               /\ temp_files' = CleanUp(temp_files, index)
               /\ completed' = completed \cup {<<index, "flac">>}
               /\ Goto("mseed", local)
          ELSE /\ flac_tags' = flac_tags
               /\ temp_files' = temp_files
               /\ completed' = completed
               /\ Raise("tag")
    /\ UNCHANGED <<pc, args, successful_files, summary, artifacts,
                   xml_dates, attempted, plots>>
    /\ UNCHANGED <<gvars, xvars, fvars>>

\* processor.py:433-435  flac_to_miniseed
Miniseed ==
    /\ pc = "batch" /\ step = "mseed"
    /\ now' = now + 1
    /\ \E written \in BOOLEAN :
          IF written
          THEN /\ artifacts' = artifacts \cup {<<index, "mseed">>}
               /\ completed' = completed \cup {<<index, "mseed">>}
               /\ Goto("xml", local)
          ELSE /\ artifacts' = artifacts
               /\ completed' = completed
               /\ Raise("mseed")
    /\ UNCHANGED <<pc, args, successful_files, summary, temp_files,
                   flac_tags, xml_dates, attempted, plots>>
    /\ UNCHANGED <<gvars, xvars, fvars>>

\* processor.py:260-265, 282-284  a float() of the record raises ValueError
FieldUnusable(data) == \E f \in FloatFields : ~FloatParses(data[f])

\* a success that is not counted
CountSuccessMissed(n) == n

\* processor.py:451  successful_files += 1
CountSuccess(n) == n + 1

\* processor.py:437-451  get_wav_info, generate_stationxml_obspy, count
StationXml ==
    /\ pc = "batch" /\ step = "xml"
    /\ now' = now + 1
    /\ IF FieldUnusable(args.stationxml_data)
       THEN /\ Raise("field")
            /\ UNCHANGED <<xml_dates, artifacts, successful_files, completed>>
       ELSE /\ xml_dates' = xml_dates \cup
                   {[index |-> index,
                     start |-> FileTimes(CurFile, args.tz_offset, now).start,
                     end |-> FileTimes(CurFile, args.tz_offset, now).end]}
            /\ artifacts' = artifacts \cup {<<index, "xml">>}
            /\ \E has_default_ns \in BOOLEAN :
                  IF XPathRaises(has_default_ns)
                  THEN /\ Raise("xpath")
                       /\ successful_files' = successful_files
                       /\ completed' = completed
                  ELSE /\ successful_files' = CountSuccess(successful_files)
                       /\ completed' = completed \cup {<<index, "xml">>}
                       /\ index' = index + 1
                       /\ step' = "loop"
                       /\ local' = None
                       /\ errors' = errors
    /\ UNCHANGED <<pc, args, summary, temp_files, flac_tags, attempted, plots>>
    /\ UNCHANGED <<gvars, xvars, fvars>>

\* processor.py:456-459  the closing prints
Summary ==
    /\ pc = "batch" /\ step = "loop" /\ index = total_files
    /\ summary' = [succeeded |-> successful_files, attempted |-> total_files]
    /\ pc' = "done"
    /\ step' = "idle"
    /\ UNCHANGED <<args, index, successful_files, local, now, temp_files, artifacts,
                   flac_tags, xml_dates, errors, attempted, plots, completed>>
    /\ UNCHANGED <<gvars, xvars, fvars>>

Next ==
    \/ EditField
    \/ EditTzOffset
    \/ TogglePlot
    \/ SelectFiles
    \/ validate_stationxml_metadata
    \/ select_stationxml_file
    \/ start_processing
    \/ BeginFile
    \/ Condition
    \/ WriteTemp
    \/ ConvertFlac
    \/ TagFlac
    \/ Miniseed
    \/ StationXml
    \/ Summary

Spec == Init /\ [][Next]_vars

\* the batch runs in its own thread (gui.py:535-538) and is never suspended
BatchStep ==
    \/ BeginFile \/ Condition \/ WriteTemp \/ ConvertFlac
    \/ TagFlac \/ Miniseed \/ StationXml \/ Summary

FairSpec == Spec /\ WF_vars(BatchStep)

(***************************************************************************)
(* Properties of the batch loop                                            *)
(***************************************************************************)
Range(q) == {q[k] : k \in 1..Len(q)}

FailedIndices == {errors[k].index : k \in 1..Len(errors)}

\* C1: a failure of file i at any step is recorded and every later file is
\* still attempted, in list order: the loop enters the indices 0, 1, 2, ...
\* without a gap, a recorded failure belongs to an entered index that the
\* loop has left behind, and at the end every file of the batch was entered.
C1_BatchContinuesAfterFailure ==
    /\ \A k \in 1..Len(attempted) : attempted[k] = k - 1
    /\ \A k \in 1..Len(errors) :
          /\ errors[k].index \in Range(attempted)
          /\ errors[k].index < index
    /\ pc = "batch" /\ step = "loop" => Len(attempted) = index
    /\ pc = "done" => Len(attempted) = total_files

\* a batch of two whose first file failed and whose second file was processed
C1_Witness ==
    /\ pc = "done"
    /\ total_files = 2
    /\ 0 \in FailedIndices
    /\ attempted = <<0, 1>>
    /\ <<1, "xml">> \in completed

\* C2: the temporary WAV of a file is gone when the loop moves on to the
\* next file, on success and on failure.
C2_TempRemovedBeforeNextFile ==
    (pc = "done" \/ (pc = "batch" /\ step = "loop")) => temp_files = {}

ValidationReasons == {"rate", "duration", "field"}

\* C3: when a failure recorded for a file is an input-validation error
\* (sample rate, duration, instrument-metadata field), no FLAC, MiniSEED
\* or StationXML artifact was written for that file.
C3_ValidationBeforeFileIO ==
    \A k \in 1..Len(errors) :
        errors[k].reason \in ValidationReasons =>
            \A kind \in {"flac", "mseed", "xml"} :
                <<errors[k].index, kind>> \notin artifacts

AllThreeCompleted ==
    {i \in 0..(total_files - 1) :
        \A call \in {"flac", "mseed", "xml"} : <<i, call>> \in completed}

\* C4: a started batch always reaches its summary, and the summary reports
\* attempted = number of input files and succeeded = number of files whose
\* FLAC, MiniSEED and StationXML steps all completed.
C4_SummaryCounts ==
    /\ [](pc = "done" =>
            /\ summary.attempted = Len(args.file_paths)
            /\ summary.succeeded = Cardinality(AllThreeCompleted)
            /\ 0 <= summary.succeeded
            /\ summary.succeeded <= summary.attempted)
    /\ [](pc = "batch" => successful_files = Cardinality(AllThreeCompleted))
    /\ ((pc = "batch") ~> (pc = "done"))

\* a finished batch with one success and one failure
C4_Witness ==
    /\ pc = "done"
    /\ summary.attempted = 2
    /\ summary.succeeded = 1
    /\ Len(errors) = 1

\* C9: when generate_stationxml_obspy is about to be called, every field of
\* the record passed to it is non-empty.
C9_FieldsNonEmptyAtGeneration ==
    (pc = "batch" /\ step = "xml") =>
        \A f \in Fields : args.stationxml_data[f] # ""

\* C10: the time_coverage_start/end saved in a file's FLAC equal the
\* start/end dates given to that file's StationXML.
C10_FlacAndXmlTimesAgree ==
    \A t \in flac_tags : \A x \in xml_dates :
        t.index = x.index => (t.start = x.start /\ t.end = x.end)

\* C14: the start saved in a file's FLAC tags, and the start date given to
\* its StationXML, is the local start inferred from the file name (or the
\* clock read during the batch, for a name without timestamp) minus the
\* offset in hours; the end is that start plus the file's duration.
C14_StartMinusOffsetEndPlusDuration ==
    \A t \in flac_tags \cup xml_dates :
        LET f == args.file_paths[t.index + 1]
        IN  /\ \E utcnow \in ClockStart..now :
                  t.start = extract_datetime_from_filename(f.name, utcnow)
                            - args.tz_offset * 3600
            /\ t.end = t.start + Duration(f)

\* a file named 2024-05-17_09-25-33 of 10 s processed with offset UTC-05:
\* both vocabularies hold 14:25:33 to 14:25:43
C14_Witness ==
    /\ args.tz_offset = 0 - 5
    /\ \E t \in flac_tags : \E x \in xml_dates :
          /\ t.index = 0 /\ x.index = 0
          /\ args.file_paths[1] = WavGood
          /\ t.start = NameFull.full + 5 * 3600 /\ t.end = t.start + 10
          /\ x.start = t.start /\ x.end = t.end

\* C15: the diagnostics never affect the outcome of a file: no file fails
\* because of the diagnostic plot, so a batch gives the same artifacts with
\* the plot enabled as with the plot disabled.
C15_DiagnosticsNeverFailAFile ==
    \A k \in 1..Len(errors) : errors[k].reason # "plot"

\* C16: the diagnostic plot is invoked at most once in a batch, only for
\* the file at index 0 and only when the plot flag of the batch is true.
C16_PlotOnceAtIndexZero ==
    /\ Len(plots) <= 1
    /\ \A k \in 1..Len(plots) : plots[k] = 0
    /\ plots # <<>> => args.plot_preference

\* the first file failed after its plot, the second file was converted
\* and no plot was made for it
C16_Witness ==
    /\ args.plot_preference
    /\ Len(errors) >= 1 /\ errors[1].index = 0
    /\ <<1, "flac">> \in completed
    /\ plots = <<0>>

\* C18: a file whose rate is outside [8000, 400000] or whose duration
\* exceeds 86400 s, once the loop has taken it, is reported as an error of
\* rate or duration, is not counted as successful, and has no temporary
\* file, no FLAC tags and no output artifact.
C18_ImplausibleFileRejected ==
    /\ \A k \in 1..Len(attempted) :
          LET i == attempted[k]
              f == args.file_paths[i + 1]
          IN  (f.rate < 8000 \/ f.rate > 400000 \/ f.nsamples > 86400 * f.rate) =>
                  /\ i < index => \E e \in 1..Len(errors) :
                                     /\ errors[e].index = i
                                     /\ errors[e].reason \in {"rate", "duration"}
                  /\ \A kind \in {"flac", "mseed", "xml"} :
                        <<i, kind>> \notin artifacts /\ <<i, kind>> \notin completed
                  /\ i \notin temp_files
                  /\ \A t \in flac_tags \cup xml_dates : t.index # i
    /\ successful_files <=
          Cardinality({i \in 1..Len(args.file_paths) :
                          LET f == args.file_paths[i]
                          IN  ~(f.rate < 8000 \/ f.rate > 400000
                                \/ f.nsamples > 86400 * f.rate)})

\* a batch of a good file and a file of 86401 s: one success, one error
C18_Witness ==
    /\ pc = "done"
    /\ args.file_paths = <<WavGood, WavTooLong>>
    /\ successful_files = 1
    /\ errors = <<[index |-> 1, reason |-> "duration"]>>
    /\ \A a \in artifacts : a[1] = 0


(***************************************************************************)
(* SpecXml: generate_stationxml_obspy from inventory.write on, for the     *)
(* base trees the serializer may hand over: the root holds at most one     *)
(* Source, at most one Sender and at least one Network, in any order;      *)
(* every Network holds one Station and at most one Identifier, in any      *)
(* order; EndDate elements may sit at any depth.                           *)
(***************************************************************************)
\* most children of the root in a base tree
MaxRootKids == 3
\* most children of a Network in a base tree
MaxNetKids == 3

OldText == <<"old">>

GenSources == {<<>>, <<"OBS campaign 2024">>}
GenSenders == {<<"PLOCAN">>}
GenNetIds  == {<<>>, <<"X9">>, <<"https://", "doi.org/10.7914/x">>}

Gens == [source : GenSources, sender : GenSenders, net_id : GenNetIds]

EndDateEl == NewElement("EndDate")

StationEls ==
    { Element("Station", <<>>, <<>>),
      Element("Station", <<>>, <<EndDateEl>>),
      Element("Station", <<>>, <<Element("Channel", <<>>, <<EndDateEl>>)>>) }

Count(kids, tag) == Cardinality({i \in 1..Len(kids) : kids[i].tag = tag})

\* children of a Network; ident_text is the text of an Identifier present
NetworkKids(ident_text) ==
    {k \in SeqsUpTo({Element("Description", OldText, <<>>),
                     Element("Identifier", ident_text, <<>>),
                     EndDateEl} \cup StationEls, MaxNetKids) :
        Count(k, "Station") = 1 /\ Count(k, "Identifier") <= 1}

RootShapes ==
    {t \in SeqsUpTo({"Source", "Sender", "EndDate", "Network"}, MaxRootKids) :
        /\ Cardinality({i \in 1..Len(t) : t[i] = "Source"}) <= 1
        /\ Cardinality({i \in 1..Len(t) : t[i] = "Sender"}) <= 1
        /\ \E i \in 1..Len(t) : t[i] = "Network"}

\* the base tree of shape t; present carries the texts already in the tree
BaseTree(t, net_kids, present) ==
    [i \in 1..Len(t) |->
        CASE t[i] = "Source"  -> Element("Source", present.source, <<>>)
          [] t[i] = "Sender"  -> Element("Sender", present.sender, <<>>)
          [] t[i] = "EndDate" -> EndDateEl
          [] t[i] = "Network" -> Element("Network", <<>>, net_kids)]

\* processor.py:303-304  the inventory is built, nothing written yet
InitXml ==
    /\ FormInit
    /\ FnIdle
    /\ xml_phase = "built"
    /\ xml_file = <<>>
    /\ ns_default \in BOOLEAN
    /\ gen \in Gens
    /\ \E t \in RootShapes : \E same \in BOOLEAN :
          LET present == IF same
                         THEN [source |-> gen.source, sender |-> gen.sender,
                               ident |-> NetworkIdentifier(gen.net_id)]
                         ELSE [source |-> OldText, sender |-> OldText,
                               ident |-> OldText]
          IN  \E net_kids \in NetworkKids(present.ident) :
                  base_root = BaseTree(t, net_kids, present)

\* processor.py:305  inventory.write(xml_filename)
InventoryWrite ==
    /\ xml_phase = "built"
    /\ xml_file' = base_root
    /\ xml_phase' = "base"
    /\ UNCHANGED <<ns_default, gen, base_root>>
    /\ UNCHANGED <<gvars, bvars, fvars>>

\* processor.py:307-347  parse, rewrite, tree.write
PostProcess ==
    /\ xml_phase = "base"
    /\ IF XPathRaises(ns_default)
       THEN /\ xml_phase' = "raised"
            /\ xml_file' = xml_file
       ELSE /\ xml_phase' = "written"
            /\ xml_file' = ComplianceRewrite(xml_file, gen)
    /\ UNCHANGED <<ns_default, gen, base_root>>
    /\ UNCHANGED <<gvars, bvars, fvars>>

NextXml == InventoryWrite \/ PostProcess

SpecXml == InitXml /\ [][NextXml]_vars


(***************************************************************************)
(* Properties of the StationXML document                                   *)
(***************************************************************************)
RECURSIVE HasEndDate(_)
HasEndDate(kids) ==
    \E i \in 1..Len(kids) : kids[i].tag = "EndDate" \/ HasEndDate(kids[i].kids)

\* generate_stationxml_obspy has ended, by returning or by raising
GenerateEnded == xml_phase \in {"written", "raised"}

\* C5: the document generate_stationxml_obspy leaves on disk contains no
\* EndDate element at any depth, with or without a default namespace.
C5_NoEndDateInDocument ==
    GenerateEnded => ~HasEndDate(xml_file)

\* C6: after the rewrite the root holds a Sender carrying the sender text
\* and, when a source is supplied, exactly one Source, carrying the source
\* text and placed before Sender.
C6_SourceThenSender ==
    xml_phase = "written" =>
        /\ Count(xml_file, "Sender") >= 1
        /\ xml_file[Find(xml_file, "Sender")].text = gen.sender
        /\ gen.source # <<>> =>
              /\ Count(xml_file, "Source") = 1
              /\ xml_file[Find(xml_file, "Source")].text = gen.source
              /\ Find(xml_file, "Source") < Find(xml_file, "Sender")

NetworkOrdered(kids) ==
    /\ Len(kids) >= 1
    /\ kids[1].tag = "Identifier"
    /\ kids[Len(kids)].tag = "Station"
    /\ Count(kids, "Identifier") = 1

\* C7: in the document generate_stationxml_obspy leaves on disk, every
\* Network has an Identifier as first child, its Station as last child and
\* exactly one Identifier.
C7_IdentifierFirstStationLast ==
    GenerateEnded =>
        \A i \in 1..Len(xml_file) :
            xml_file[i].tag = "Network" => NetworkOrdered(xml_file[i].kids)

\* a tree that already satisfies the structural rules and carries the texts
\* of the metadata g
Compliant(root, g) ==
    /\ ~HasEndDate(root)
    /\ Count(root, "Sender") = 1
    /\ root[Find(root, "Sender")].text = g.sender
    /\ Count(root, "Source") = 1
    /\ root[Find(root, "Source")].text = g.source
    /\ Find(root, "Source") < Find(root, "Sender")
    /\ \A i \in 1..Len(root) :
          root[i].tag = "Network" =>
              /\ NetworkOrdered(root[i].kids)
              /\ root[i].kids[1].text = NetworkIdentifier(g.net_id)

\* C8: the rewrite leaves a compliant tree unchanged, and rewriting the
\* rewritten tree again changes nothing.
C8_RewriteIdempotent ==
    xml_phase = "written" =>
        /\ Compliant(base_root, gen) => xml_file = base_root
        /\ ComplianceRewrite(xml_file, gen) = xml_file

\* the Identifier text the network_identifier value v calls for
IdentifierTextFor(v) ==
    IF v # <<>> /\ (v[1] = "http://" \/ v[1] = "https://")
    THEN v
    ELSE <<"urn:network_identifier:">> \o v

\* C19: in the document generate_stationxml_obspy leaves on disk, every
\* Network holds an Identifier, and the text of each Identifier under a
\* Network is the network_identifier value itself when it starts with
\* http:// or https://, and urn:network_identifier:<value> otherwise, the
\* empty value included.
C19_IdentifierTextFromValue ==
    GenerateEnded =>
        \A i \in 1..Len(xml_file) :
            xml_file[i].tag = "Network" =>
                /\ Count(xml_file[i].kids, "Identifier") >= 1
                /\ \A k \in 1..Len(xml_file[i].kids) :
                      xml_file[i].kids[k].tag = "Identifier" =>
                          xml_file[i].kids[k].text = IdentifierTextFor(gen.net_id)

(***************************************************************************)
(* SpecName: extract_datetime_from_filename on its own.  A file name is a  *)
(* run of at most MaxPieces pieces followed by an extension; the pieces    *)
(* are words, digits, and texts the two patterns match, with valid and     *)
(* with invalid calendar values.                                           *)
(***************************************************************************)
\* longest run of pieces in a file name
MaxPieces == 3

PieceWord == <<"r", "e", "c">>
PieceUnderscore == <<"_">>
PieceDigit == <<"1">>
PieceFull == <<"2", "0", "2", "4", "-", "0", "5", "-", "1", "7", "_", "0", "9", "-", "2", "5", "-", "3", "3">>
PieceFullSpace == <<"2", "0", "1", "8", "-", "0", "7", "-", "2", "6", " ", "1", "4", "-", "1", "2", "-", "4", "1">>
PieceFullMonth13 == <<"2", "0", "2", "4", "-", "1", "3", "-", "1", "7", "_", "0", "9", "-", "2", "5", "-", "3", "3">>
PieceFullFeb29 == <<"2", "0", "2", "3", "-", "0", "2", "-", "2", "9", "_", "0", "9", "-", "2", "5", "-", "3", "3">>
PieceFullHour24 == <<"2", "0", "2", "4", "-", "0", "5", "-", "1", "7", "_", "2", "4", "-", "0", "0", "-", "0", "0">>
PieceFullT == <<"2", "0", "2", "4", "-", "0", "5", "-", "1", "7", "T", "0", "9", "-", "2", "5", "-", "3", "3">>
PieceCompact == <<"2", "0", "1", "8", "0", "7", "2", "6", "_", "1", "4", "1", "2", "4", "1">>
PieceCompactDay45 == <<"2", "0", "1", "8", "0", "7", "4", "5", "_", "1", "4", "1", "2", "4", "1">>

Pieces == {PieceWord, PieceUnderscore, PieceDigit, PieceFull,
           PieceFullSpace, PieceFullMonth13, PieceFullFeb29, PieceFullHour24,
           PieceFullT, PieceCompact, PieceCompactDay45}

Extensions == {<<>>, <<".", "w", "a", "v">>}

RECURSIVE Concat(_)
Concat(ps) == IF ps = <<>> THEN <<>> ELSE Head(ps) \o Concat(Tail(ps))

InitName ==
    /\ FormInit
    /\ XmlIdle
    /\ fn_phase = "called"
    /\ fn_out = <<>>
    /\ \E ps \in SeqsUpTo(Pieces, MaxPieces) : \E e \in Extensions :
          \E z \in FuzzyOutcomes(StripExtension(Concat(ps) \o e)) :
              fn_in = [filename |-> Concat(ps) \o e, fuzzy |-> z, utcnow |-> ClockStart]

\* processor.py:27-72  one call
CallExtract ==
    /\ fn_phase = "called"
    /\ fn_out' = extract_datetime_from_filename(Name(fn_in.filename, fn_in.fuzzy),
                                                fn_in.utcnow)
    /\ fn_phase' = "returned"
    /\ UNCHANGED fn_in
    /\ UNCHANGED <<gvars, bvars, xvars>>

NextName == CallExtract

SpecName == InitName /\ [][NextName]_vars

\* C11 as stated: for every file name that contains the full-separator
\* pattern, the value returned is the date and time a match of the pattern
\* encodes, whatever text surrounds the match.
C11_FullPatternAlwaysReturned ==
    (fn_phase = "returned" /\ FirstFull(fn_in.filename) # 0) =>
        \E i \in 1..Len(fn_in.filename) :
            /\ FullAt(fn_in.filename, i)
            /\ ValidDateTime(FullFields(fn_in.filename, i))
            /\ fn_out = ToSeconds(FullFields(fn_in.filename, i))

\* C11 amended: when the leftmost match of the full-separator pattern in
\* the file name is a valid calendar date and time, the value returned is
\* exactly that date and time, whatever text surrounds the match.
C11_LeftmostValidMatchReturned ==
    LET i == FirstFull(fn_in.filename)
    IN  (fn_phase = "returned" /\ i # 0 /\ ValidDateTime(FullFields(fn_in.filename, i))) =>
            fn_out = ToSeconds(FullFields(fn_in.filename, i))

\* a valid match with text before and after it was returned
C11_Witness ==
    /\ fn_phase = "returned"
    /\ fn_in.filename = PieceWord \o PieceFull \o PieceDigit \o <<".", "w", "a", "v">>
    /\ fn_out = ToSeconds([year |-> 2024, month |-> 5, day |-> 17,
                           hour |-> 9, minute |-> 25, second |-> 33])

\* C12: the function returns a timestamp for every file name and never
\* raises; when none of the three tiers yields a timestamp, the value
\* returned is the current UTC instant.
C12_AlwaysATimestamp ==
    fn_phase = "returned" =>
        LET name == Name(fn_in.filename, fn_in.fuzzy)
        IN  /\ fn_out # ParseFailed
            /\ fn_out >= 0
            /\ (~TierFound(name.full) /\ ~TierFound(name.compact) /\ ~TierFound(name.fuzzy))
                  => fn_out = fn_in.utcnow

\* a name whose full-separator match is not a calendar date, with no other
\* timestamp: every tier failed and the clock was returned
C12_Witness ==
    /\ fn_phase = "returned"
    /\ fn_in.filename = PieceFullMonth13 \o <<".", "w", "a", "v">>
    /\ fn_in.fuzzy = ParseFailed
    /\ fn_out = fn_in.utcnow

\* C23: the three tiers are tried in strict priority order and the first
\* tier that yields a timestamp supplies the value returned: the full
\* tier's value whenever it yields one, the compact tier's value only when
\* the full tier did not match or did not parse, the fuzzy parse only when
\* both earlier tiers failed; a full-separator match that is not a calendar
\* date (month 13) neither raises nor is returned, the later tiers decide.
C23_TiersInPriorityOrder ==
    fn_phase = "returned" =>
        LET s == StripExtension(fn_in.filename)
            full == FullTier(s)
            compact == CompactTier(s)
            fuzzy == fn_in.fuzzy
            later == IF compact >= 0 THEN compact
                     ELSE IF fuzzy >= 0 THEN fuzzy
                     ELSE fn_in.utcnow
        IN  /\ full >= 0 => fn_out = full
            /\ (full < 0 /\ compact >= 0) => fn_out = compact
            /\ (full < 0 /\ compact < 0 /\ fuzzy >= 0) => fn_out = fuzzy
            /\ full = ParseFailed => (fn_out # ParseFailed /\ fn_out = later)

\* a name whose full-separator match has month 13, followed by a valid
\* compact timestamp: the full tier failed to parse and the compact tier's
\* value was returned, although the fuzzy parse had a value too
C23_Witness ==
    /\ fn_phase = "returned"
    /\ fn_in.filename = PieceFullMonth13 \o PieceUnderscore \o PieceCompact
                            \o <<".", "w", "a", "v">>
    /\ fn_in.fuzzy = FuzzyStamp
    /\ fn_out = ToSeconds([year |-> 2018, month |-> 7, day |-> 26,
                           hour |-> 14, minute |-> 12, second |-> 41])

(***************************************************************************)
(* SpecTz: start_processing on a validated form with one valid file, for   *)
(* every time zone text made of a head of letters and a tail of at most    *)
(* MaxTzTail signs and digits, with or without a blank before or after.    *)
(***************************************************************************)
\* longest tail (signs and digits) of a time zone text
MaxTzTail == 4

TzHeads == {<<>>, <<"U", "T", "C">>, <<"u", "t", "c">>, <<"U", "T", "c">>,
            <<"U", "T">>, <<"U", "T", "C", "C">>, <<"G", "M", "T">>,
            <<"U", "T", "C", " ">>}
TzTailChars == {"+", "-", "2", "4"}
TzBlanks == {<<>>, <<" ">>}

FilledEntries == [f \in Fields |-> IF f \in FloatFields THEN "28.1" ELSE "PLOCAN"]

\* the form after the fields were filled and validated, one file selected
\* and a text typed in the time zone entry
InitTz ==
    /\ XmlIdle
    /\ FnIdle
    /\ entries = FilledEntries
    /\ stationxml_validated = TRUE
    /\ file_paths = <<WavGood>>
    /\ \E b \in TzBlanks : \E h \in TzHeads : \E a \in TzBlanks :
          \E t \in SeqsUpTo(TzTailChars, MaxTzTail) :
              tz_offset_entry = b \o h \o t \o a
    /\ plot_var = FALSE
    /\ status = "validated"
    /\ pc = "gui"
    /\ args = NoArgs
    /\ index = 0
    /\ step = "idle"
    /\ successful_files = 0
    /\ summary = None
    /\ local = None
    /\ now = ClockStart
    /\ temp_files = {}
    /\ artifacts = {}
    /\ flac_tags = {}
    /\ xml_dates = {}
    /\ errors = <<>>
    /\ attempted = <<>>
    /\ plots = <<>>
    /\ completed = {}

NextTz == start_processing

SpecTz == InitTz /\ [][NextTz]_vars

DigitChar(n) == <<"0", "1", "2", "3", "4", "5", "6", "7", "8", "9">>[n + 1]

\* the texts UTC, a sign, one or two digits, whose number is below 24,
\* each with the signed number it denotes
TzForms ==
    UNION {{[text |-> <<"U", "T", "C", sg>> \o d,
             value |-> IF sg = "+" THEN n ELSE 0 - n] :
                d \in {<<DigitChar(n \div 10), DigitChar(n % 10)>>}
                      \cup (IF n < 10 THEN {<<DigitChar(n)>>} ELSE {})} :
           sg \in {"+", "-"}, n \in 0..23}

\* the entry reads as text t, blanks around it and letter case set aside
ReadsAs(entry, t) ==
    \E i \in 1..(Len(entry) + 1) :
        /\ i + Len(t) - 1 <= Len(entry)
        /\ \A k \in 1..Len(entry) :
              IF k >= i /\ k < i + Len(t)
              THEN UpperChar(entry[k]) = t[k - i + 1]
              ELSE entry[k] = " "

C13_WitnessAccepted ==
    /\ tz_offset_entry = <<" ", "U", "T", "c", "-", "2", "2", " ">>
    /\ pc = "batch"
    /\ args.tz_offset = 0 - 22

(***************************************************************************)
(* SpecPath: the output paths computed from one input path.  A path is     *)
(* the sequence of its characters: a folder, a stem of at most             *)
(* MaxStemPieces pieces that starts with a letter, and an extension that   *)
(* select_folder accepts (f.lower().endswith('.wav'), gui.py:383).         *)
(***************************************************************************)
\* longest run of pieces in the stem of a file name
MaxStemPieces == 2

ExtWav   == <<".", "w", "a", "v">>
ExtWAV   == <<".", "W", "A", "V">>
ExtWavMixed == <<".", "W", "a", "v">>
ExtFlac  == <<".", "f", "l", "a", "c">>
ExtMseed == <<".", "m", "s", "e", "e", "d">>
ExtStationXml == <<".", "s", "t", "a", "t", "i", "o", "n", ".", "x", "m", "l">>

Folders == {<<>>, <<"a", "/">>, <<"b", "/">>, <<"c", ".", "w", "a", "v", "/">>}
StemLetters == {<<"x">>, <<"y">>}
StemPieces == StemLetters \cup {ExtWav, ExtWAV}
Stems == {Concat(ps) : ps \in {q \in SeqsUpTo(StemPieces, MaxStemPieces) :
                                  q # <<>> /\ q[1] \in StemLetters}}
AcceptedExtensions == {ExtWav, ExtWAV, ExtWavMixed}

\* str.replace(old, new): every occurrence, left to right
RECURSIVE Replace(_, _, _)
Replace(s, old, new) ==
    IF Len(s) < Len(old) THEN s
    ELSE IF SubSeq(s, 1, Len(old)) = old
         THEN new \o Replace(SubSeq(s, Len(old) + 1, Len(s)), old, new)
         ELSE <<Head(s)>> \o Replace(Tail(s), old, new)

\* os.path.basename
Basename(p) ==
    LET slashes == {i \in 1..Len(p) : p[i] = "/"}
    IN  IF slashes = {} THEN p
        ELSE SubSeq(p, (CHOOSE j \in slashes : \A k \in slashes : k <= j) + 1, Len(p))

\* os.path.splitext(name)[0]: the text before the last dot that follows a
\* character other than a dot
SplitextRoot(name) ==
    LET dots == {i \in 2..Len(name) :
                    name[i] = "." /\ \E k \in 1..(i - 1) : name[k] # "."}
    IN  IF dots = {} THEN name
        ELSE SubSeq(name, 1, (CHOOSE j \in dots : \A k \in dots : k <= j) - 1)

\* processor.py:401  file_path.replace('.wav', '.flac').replace('.WAV', '.flac')
FlacOutputPath(file_path) == Replace(Replace(file_path, ExtWav, ExtFlac), ExtWAV, ExtFlac)

\* processor.py:434  file_path.replace('.wav', '.mseed').replace('.WAV', '.mseed')
MiniseedOutputPath(file_path) == Replace(Replace(file_path, ExtWav, ExtMseed), ExtWAV, ExtMseed)

\* processor.py:304  f"{os.path.splitext(wav_file_name)[0]}.station.xml"
XmlFilename(wav_file_name) == SplitextRoot(wav_file_name) \o ExtStationXml

InitPath ==
    /\ FormInit
    /\ XmlIdle
    /\ fn_phase = "called"
    /\ fn_out = <<>>
    /\ \E d \in Folders : \E s \in Stems : \E e \in AcceptedExtensions :
          fn_in = [folder |-> d, stem |-> s, extension |-> e, file_path |-> d \o s \o e]

\* processor.py:401, 434, 441, 304  the three output paths of one input
OutputPaths ==
    /\ fn_phase = "called"
    /\ fn_out' = [flac |-> FlacOutputPath(fn_in.file_path),
                  mseed |-> MiniseedOutputPath(fn_in.file_path),
                  xml |-> XmlFilename(Basename(fn_in.file_path))]
    /\ fn_phase' = "returned"
    /\ UNCHANGED fn_in
    /\ UNCHANGED <<gvars, bvars, xvars>>

NextPath == OutputPaths

SpecPath == InitPath /\ [][NextPath]_vars

\* C17: for an input whose FLAC and MiniSEED paths differ from the input
\* path (so that the three calls can succeed), the three outputs are named
\* <name>.flac, <name>.mseed and <name>.station.xml, where <name> is the
\* input's file name without its extension.
C17_OutputsCarryInputName ==
    (/\ fn_phase = "returned"
     /\ fn_out.flac # fn_in.file_path
     /\ fn_out.mseed # fn_in.file_path) =>
        /\ Basename(fn_out.flac) = fn_in.stem \o ExtFlac
        /\ Basename(fn_out.mseed) = fn_in.stem \o ExtMseed
        /\ Basename(fn_out.xml) = fn_in.stem \o ExtStationXml

\* C24: no output is written onto the input: for every accepted input path
\* the FLAC output path and the MiniSEED output path differ from the input
\* path.
C24_OutputsNeverOnInput ==
    fn_phase = "returned" =>
        /\ fn_out.flac # fn_in.file_path
        /\ fn_out.mseed # fn_in.file_path

(***************************************************************************)
(* SpecMseed: the start time flac_to_miniseed gives the trace, for the     *)
(* tag sets a FLAC file may hold.  A tag is a timestamp, NoStamp when the  *)
(* tag is absent, ParseFailed when UTCDateTime raises on its text.         *)
(***************************************************************************)
TagTimes == {1000, 2000, 3000}
TagValues == {NoStamp, ParseFailed} \cup TagTimes

\* the date_created branch left out
TraceStartOneTag(readable, flac_meta, utcnow) ==
    IF ~readable THEN utcnow
    ELSE IF flac_meta.time_coverage_start # NoStamp
         THEN (IF flac_meta.time_coverage_start = ParseFailed THEN utcnow
               ELSE flac_meta.time_coverage_start)
         ELSE utcnow

\* processor.py:216-225  start_time; readable: FLAC(flac_file_path) returned
TraceStart(readable, flac_meta, utcnow) ==
    IF ~readable THEN utcnow
    ELSE IF flac_meta.time_coverage_start # NoStamp
         THEN (IF flac_meta.time_coverage_start = ParseFailed THEN utcnow
               ELSE flac_meta.time_coverage_start)
         ELSE IF flac_meta.date_created # NoStamp
              THEN (IF flac_meta.date_created = ParseFailed THEN utcnow
                    ELSE flac_meta.date_created)
              ELSE utcnow

InitMseed ==
    /\ FormInit
    /\ XmlIdle
    /\ fn_phase = "called"
    /\ fn_out = <<>>
    /\ \E r \in BOOLEAN : \E s \in TagValues : \E c \in TagValues :
          fn_in = [readable |-> r,
                   flac_meta |-> [time_coverage_start |-> s, date_created |-> c],
                   utcnow |-> ClockStart]

\* processor.py:214-234  one call; the decoding or the write may raise
flac_to_miniseed ==
    /\ fn_phase = "called"
    /\ \E written \in BOOLEAN :
          fn_out' = [written |-> written,
                     starttime |-> TraceStart(fn_in.readable, fn_in.flac_meta, fn_in.utcnow)]
    /\ fn_phase' = "returned"
    /\ UNCHANGED fn_in
    /\ UNCHANGED <<gvars, bvars, xvars>>

NextMseed == flac_to_miniseed

SpecMseed == InitMseed /\ [][NextMseed]_vars

\* C20 as stated: the start time of the trace written is the FLAC's
\* time_coverage_start tag when that tag is present, and the current time
\* when it is absent, whatever other tags the FLAC holds.
C20_StartFromCoverageTagOrClock ==
    (fn_phase = "returned" /\ fn_out.written /\ fn_in.readable) =>
        /\ fn_in.flac_meta.time_coverage_start \in TagTimes =>
              fn_out.starttime = fn_in.flac_meta.time_coverage_start
        /\ fn_in.flac_meta.time_coverage_start = NoStamp =>
              fn_out.starttime = fn_in.utcnow

\* C20 amended: the start time of the trace written is the
\* time_coverage_start tag when present; when that tag is absent, the
\* date_created tag when present; the current time when neither tag is
\* present, when the tags cannot be read, or when the tag chosen is not a
\* time.
C20_StartFromCoverageThenCreatedThenClock ==
    (fn_phase = "returned" /\ fn_out.written) =>
        LET s == fn_in.flac_meta.time_coverage_start
            c == fn_in.flac_meta.date_created
        IN  /\ (fn_in.readable /\ s \in TagTimes) => fn_out.starttime = s
            /\ (fn_in.readable /\ s = NoStamp /\ c \in TagTimes) => fn_out.starttime = c
            /\ (fn_in.readable /\ s = NoStamp /\ c = NoStamp) => fn_out.starttime = fn_in.utcnow
            /\ (fn_in.readable /\ s = ParseFailed) => fn_out.starttime = fn_in.utcnow
            /\ (fn_in.readable /\ s = NoStamp /\ c = ParseFailed) =>
                  fn_out.starttime = fn_in.utcnow
            /\ ~fn_in.readable => fn_out.starttime = fn_in.utcnow

\* a FLAC without time_coverage_start and with date_created: the trace
\* starts at date_created
C20_Witness ==
    /\ fn_phase = "returned" /\ fn_out.written /\ fn_in.readable
    /\ fn_in.flac_meta = [time_coverage_start |-> NoStamp, date_created |-> 2000]
    /\ fn_out.starttime = 2000

(***************************************************************************)
(* SpecResample: the lengths downsample_wav works with.  The input is      *)
(* described by its number of samples: up to MaxFullChunks chunks of       *)
(* ChunkSize samples followed by up to MaxTailSamples samples.  For the    *)
(* lengths and rates of the model the floating-point product               *)
(* len(chunk) * (target_rate / original_rate) truncates to the same        *)
(* integer as the exact quotient.                                          *)
(***************************************************************************)
\* processor.py:178  chunk_size
ChunkSize == 1000000

\* most complete chunks in an input
MaxFullChunks == 2
\* most samples after the last complete chunk
MaxTailSamples == 120

SourceRates == {FINAL_SAMPLING_RATE, 8000, 44100}

\* processor.py:180-181  len(filtered_data[i:i + chunk_size]) for each i
ChunkLengths(n) ==
    [i \in 1..((n + ChunkSize - 1) \div ChunkSize) |->
        IF i * ChunkSize <= n THEN ChunkSize ELSE n - (i - 1) * ChunkSize]

\* processor.py:182  int(len(chunk) * (target_rate / original_rate))
ResampledLength(chunk_length, original_rate, target_rate) ==
    (chunk_length * target_rate) \div original_rate

RECURSIVE SumSeq(_)
SumSeq(s) == IF s = <<>> THEN 0 ELSE Head(s) + SumSeq(Tail(s))

InitResample ==
    /\ FormInit
    /\ XmlIdle
    /\ fn_phase = "called"
    /\ fn_out = <<>>
    /\ \E k \in 0..MaxFullChunks : \E r \in 0..MaxTailSamples : \E rate \in SourceRates :
          fn_in = [length |-> k * ChunkSize + r, original_rate |-> rate,
                   target_rate |-> FINAL_SAMPLING_RATE]

\* processor.py:157-188  one call.  np.max raises on empty data; what
\* scipy's resample does when asked for 0 samples is left open (it returns
\* an empty chunk or raises).
downsample_wav ==
    /\ fn_phase = "called"
    /\ LET lengths == ChunkLengths(fn_in.length)
           resampled == [i \in 1..Len(lengths) |->
                            ResampledLength(lengths[i], fn_in.original_rate,
                                            fn_in.target_rate)]
       IN  IF fn_in.original_rate = fn_in.target_rate
           THEN fn_out' = [raised |-> FALSE, chunks |-> <<fn_in.length>>,
                           length |-> fn_in.length]
           ELSE IF fn_in.length = 0
           THEN fn_out' = [raised |-> TRUE, chunks |-> <<>>, length |-> 0]
           ELSE \E zero_raises \in BOOLEAN :
                   IF zero_raises /\ \E i \in 1..Len(resampled) : resampled[i] = 0
                   THEN fn_out' = [raised |-> TRUE, chunks |-> <<>>, length |-> 0]
                   ELSE fn_out' = [raised |-> FALSE, chunks |-> resampled,
                                   length |-> SumSeq(resampled)]
    /\ fn_phase' = "returned"
    /\ UNCHANGED fn_in
    /\ UNCHANGED <<gvars, bvars, xvars>>

NextResample == downsample_wav

SpecResample == InitResample /\ [][NextResample]_vars

\* round(n / d) for positive d, halves to the even neighbour
RoundedQuotient(n, d) ==
    LET q == (2 * n + d) \div (2 * d)
    IN  IF (2 * n + d) % (2 * d) = 0 /\ q % 2 = 1 THEN q - 1 ELSE q

\* C22: when downsample_wav returns for source_rate # target_rate, the
\* input was cut in order into chunks of 1,000,000 samples (the last one
\* shorter), chunk number i of the output holds
\* round(chunk_length * target_rate / source_rate) samples, and the output
\* length is the sum of those numbers.
C22_ChunksRoundedAndConcatenated ==
    (/\ fn_phase = "returned"
     /\ ~fn_out.raised
     /\ fn_in.original_rate # fn_in.target_rate) =>
        LET n == fn_in.length
            count == (n + 999999) \div 1000000
        IN  /\ Len(fn_out.chunks) = count
            /\ \A i \in 1..count :
                  LET chunk_length == IF i < count THEN 1000000
                                      ELSE n - (count - 1) * 1000000
                  IN  fn_out.chunks[i] =
                          RoundedQuotient(chunk_length * fn_in.target_rate,
                                          fn_in.original_rate)
            /\ fn_out.length = SumSeq(fn_out.chunks)

(***************************************************************************)
(* SpecBatchPaths: the output paths process_files computes for a batch of  *)
(* two distinct input paths, one file per step of its loop.  The inputs    *)
(* are the accepted spellings of the extension on a stem that is a letter  *)
(* or a letter followed by one more '.wav' or '.WAV', in any of Folders.   *)
(***************************************************************************)
BatchStems == StemLetters \cup {l \o e : l \in StemLetters, e \in {ExtWav, ExtWAV}}

BatchPaths == {d \o s \o e : d \in Folders, s \in BatchStems, e \in AcceptedExtensions}

InitBatchPaths ==
    /\ FormInit
    /\ XmlIdle
    /\ fn_phase = "called"
    /\ fn_out = <<>>
    /\ \E p \in BatchPaths : \E q \in BatchPaths \ {p} :
          fn_in = <<p, q>>

\* processor.py:421-445  one turn of the loop of process_files: the paths
\* of the three outputs of the next file (processor.py:401, 434, 441, 304)
ProcessNextPath ==
    /\ fn_phase = "called"
    /\ Len(fn_out) < Len(fn_in)
    /\ LET file_path == fn_in[Len(fn_out) + 1]
       IN  fn_out' = Append(fn_out,
                            [flac |-> FlacOutputPath(file_path),
                             mseed |-> MiniseedOutputPath(file_path),
                             xml |-> XmlFilename(Basename(file_path))])
    /\ fn_phase' = IF Len(fn_out) + 1 = Len(fn_in) THEN "returned" ELSE "called"
    /\ UNCHANGED fn_in
    /\ UNCHANGED <<gvars, bvars, xvars>>

NextBatchPaths == ProcessNextPath

SpecBatchPaths == InitBatchPaths /\ [][NextBatchPaths]_vars

\* C25: distinct inputs of one batch never share an output: the FLAC paths
\* of two distinct inputs differ, their MiniSEED paths differ and their
\* StationXML paths differ, also when the two inputs have the same base
\* name in different folders.
C25_DistinctInputsDistinctOutputs ==
    fn_phase = "returned" =>
        \A i \in 1..Len(fn_in) : \A j \in 1..Len(fn_in) :
            (i # j /\ fn_in[i] # fn_in[j]) =>
                /\ fn_out[i].flac # fn_out[j].flac
                /\ fn_out[i].mseed # fn_out[j].mseed
                /\ fn_out[i].xml # fn_out[j].xml

(***************************************************************************)
(* SpecSignal: downsample_wav on the samples of one short recording.       *)
(* Samples are fixed-point numbers in thousandths of full scale; the       *)
(* recording has SignalLength samples with one level before a step and     *)
(* another after it.  The taps of the filter and the cosines of the        *)
(* transform are the library's values rounded to five and three decimal    *)
(* places; on the recordings below the rescaled samples differ from the    *)
(* floating-point ones by less than 60 units of 32767.                     *)
(***************************************************************************)
SignalLength == 108
SignalRate == 8000
Levels == {0 - 1000, 0, 500, 1000}
StepPositions == {4 * i : i \in 0..(SignalLength \div 4)}

\* processor.py:173
numtaps == 101

TapScale == 100000

\* the first 51 of the 101 taps firwin(101, 150 / 4000) returns (Hamming
\* window, unit gain at 0 Hz), times TapScale; the taps are symmetric
FirHalf ==
    <<0 - 19, 0 - 26, 0 - 32, 0 - 40, 0 - 50, 0 - 60, 0 - 72, 0 - 86,
      0 - 101, 0 - 117, 0 - 133, 0 - 150, 0 - 166, 0 - 181, 0 - 194,
      0 - 203, 0 - 208, 0 - 208, 0 - 201, 0 - 185, 0 - 161, 0 - 126,
      0 - 80, 0 - 22, 49, 134, 232, 345, 472, 612, 765, 930, 1106, 1291,
      1484, 1682, 1883, 2085, 2286, 2484, 2674, 2856, 3027, 3183, 3324,
      3447, 3550, 3632, 3691, 3727, 3739>>

\* processor.py:172-174  fir_filter, indexed from 0
firwin == [k \in 0..(numtaps - 1) |->
              FirHalf[(IF 2 * k <= numtaps - 1 THEN k ELSE numtaps - 1 - k) + 1]]

\* the sequence of the first n values of f
Tabulate(n, f) == SubSeq(f, 1, n)

\* b[lo] * x[n - lo] + ... + b[hi] * x[n - hi], summed by halves
RECURSIVE FilterSum(_, _, _, _, _)
FilterSum(b, x, n, lo, hi) ==
    IF lo > hi THEN 0
    ELSE IF lo = hi THEN b[lo] * x[n - lo]
    ELSE LET mid == (lo + hi) \div 2
         IN  FilterSum(b, x, n, lo, mid) + FilterSum(b, x, n, mid + 1, hi)

\* processor.py:175  lfilter(fir_filter, 1.0, data)
\* sample n of the result takes the taps 0..numtaps-1 that reach a sample
\* of x: b[0] * x[n] + b[1] * x[n - 1] + ...
lfilter(b, x) ==
    Tabulate(Len(x), [n \in 1..Len(x) |->
                        FilterSum(b, x, n, 0,
                                  IF n - 1 < numtaps - 1 THEN n - 1 ELSE numtaps - 1)
                            \div TapScale])

\* 1000 * cos(2 * pi * m / SignalLength) for m = 0..27
CosQuarter ==
    <<1000, 998, 993, 985, 973, 958, 940, 918, 894, 866, 835, 802, 766, 727,
      686, 643, 597, 550, 500, 449, 396, 342, 287, 231, 174, 116, 58, 0>>

\* 1000 * cos(2 * pi * m / SignalLength) for every integer m
Cos(m) ==
    LET r == m % SignalLength
        h == IF 2 * r > SignalLength THEN SignalLength - r ELSE r
    IN  IF 4 * h <= SignalLength THEN CosQuarter[h + 1]
        ELSE 0 - CosQuarter[(SignalLength \div 2) - h + 1]

\* 1000 times the weight of sample n of the chunk (from 0) in sample k of
\* the result (from 0), for a chunk of SignalLength samples and an even num
\* that divides SignalLength: the transform of the chunk cut to its first
\* num / 2 + 1 bins, the last bin doubled, and transformed back
RECURSIVE ResampleWeight(_, _, _, _)
ResampleWeight(num, k, n, j) ==
    IF j = 0 THEN 1000 + ResampleWeight(num, k, n, 1)
    ELSE IF 2 * j < num
         THEN 2 * Cos(j * (n - (SignalLength \div num) * k))
              + ResampleWeight(num, k, n, j + 1)
         ELSE (IF k % 2 = 0 THEN 2 ELSE 0 - 2) * Cos(j * n)

\* the weighted sum of the samples lo..hi of the chunk (from 0), by halves
RECURSIVE ResampleSum(_, _, _, _, _)
ResampleSum(chunk, num, k, lo, hi) ==
    IF lo > hi THEN 0
    ELSE IF lo = hi THEN chunk[lo + 1] * ResampleWeight(num, k, lo, 0)
    ELSE LET mid == (lo + hi) \div 2
         IN  ResampleSum(chunk, num, k, lo, mid)
             + ResampleSum(chunk, num, k, mid + 1, hi)

\* processor.py:182  scipy.signal.resample(chunk, num)
resample(chunk, num) ==
    Tabulate(num, [k \in 1..num |->
                      ResampleSum(chunk, num, k - 1, 0, Len(chunk) - 1)
                          \div (Len(chunk) * 1000)])

SeqMaxAbs(x) == CHOOSE m \in {Abs(x[i]) : i \in 1..Len(x)} :
                    \A i \in 1..Len(x) : Abs(x[i]) <= m

\* processor.py:186  np.iinfo(np.int16).max
Int16Max == 32767
Int16Min == 0 - 32768

InInt16(v) == Int16Min <= v /\ v <= Int16Max

\* the value modulo 2^16, as a signed 16-bit number
Wrap16(v) == ((v - Int16Min) % 65536) + Int16Min

\* processor.py:187  astype(np.int16) of one value: the fraction is dropped;
\* the conversion of a value outside the range is undefined, the builds
\* either keep the low 16 bits or give the smallest 16-bit number
AsInt16(v, keeps_low_bits) ==
    IF InInt16(v) THEN v
    ELSE IF keeps_low_bits THEN Wrap16(v) ELSE Int16Min

InitSignal ==
    /\ FormInit
    /\ XmlIdle
    /\ fn_phase = "called"
    /\ fn_out = <<>>
    /\ \E a \in Levels : \E b \in Levels : \E s \in StepPositions :
       \E rate \in {FINAL_SAMPLING_RATE, SignalRate} :
          fn_in = [data |-> [n \in 1..SignalLength |-> IF n <= s THEN a ELSE b],
                   original_rate |-> rate,
                   target_rate |-> FINAL_SAMPLING_RATE]

\* processor.py:157-188  one call of downsample_wav on a recording of one
\* chunk; scaled is downsampled_data after line 186, before the conversion
\* (every intermediate sequence is bound to its value once)
DownsampleSignal ==
    /\ fn_phase = "called"
    /\ IF fn_in.original_rate = fn_in.target_rate
       THEN fn_out' = [resampled |-> FALSE, scaled |-> fn_in.data,
                       downsampled |-> fn_in.data, filtered |-> fn_in.data]
       ELSE \E max_val \in {IF SeqMaxAbs(fn_in.data) = 0 THEN 1 ELSE SeqMaxAbs(fn_in.data)} :
            \E data \in {Tabulate(Len(fn_in.data),
                                 [n \in 1..Len(fn_in.data) |->
                                     (fn_in.data[n] * 1000) \div max_val])} :
            \E filtered_data \in {lfilter(firwin, data)} :
            \E num \in {ResampledLength(Len(filtered_data), fn_in.original_rate,
                                       fn_in.target_rate)} :
            \E chunk_downsampled \in {resample(filtered_data, num)} :
            \E scaled \in {Tabulate(num, [k \in 1..num |->
                                            (chunk_downsampled[k] * Int16Max) \div 1000])} :
            \E keeps_low_bits \in BOOLEAN :
                    fn_out' = [resampled |-> TRUE, scaled |-> scaled,
                               downsampled |-> [k \in 1..num |->
                                                   AsInt16(scaled[k], keeps_low_bits)],
                               filtered |-> filtered_data]
    /\ fn_phase' = "returned"
    /\ UNCHANGED fn_in
    /\ UNCHANGED <<gvars, bvars, xvars>>

NextSignal == DownsampleSignal

SpecSignal == InitSignal /\ [][NextSignal]_vars

\* C21: for every recording that is not all zero and whose rate is not the
\* target rate, every downsampled sample rescaled to the 16-bit range lies
\* in -32768..32767 before it is converted, so that the conversion to
\* 16-bit integers changes no value.
C21_ScaledSamplesWithinInt16 ==
    (/\ fn_phase = "returned"
     /\ fn_in.original_rate # fn_in.target_rate
     /\ \E n \in 1..Len(fn_in.data) : fn_in.data[n] # 0) =>
        \A k \in 1..Len(fn_out.scaled) :
            /\ InInt16(fn_out.scaled[k])
            /\ fn_out.downsampled[k] = fn_out.scaled[k]

=============================================================================
